---- MODULE Spec2Model ----
(***************************************************************************)
(* A model of the exam-helper conversation system:                         *)
(*   - ConversationStore   (app/utils/conversation_store.py)               *)
(*   - detect_intent       (app/utils/intent_detector.py)                  *)
(*   - OrchestratorNode    (app/nodes/orchestrator_node.py)                *)
(*   - MultiAgentWorkflow  (app/workflows/multi_agentic_workflow.py)       *)
(*                                                                         *)
(* Strings that the code inspects character by character (conversation     *)
(* identifiers, classifier replies) are sequences of one-character         *)
(* strings.  Timestamps (datetime.now().isoformat()) are natural numbers:  *)
(* the ISO format orders lexicographically as the instants order.          *)
(***************************************************************************)
EXTENDS Naturals, Sequences, FiniteSets, TLC

VARIABLES
    files,            \* storage_dir: file name -> file content
    clock,            \* the latest value datetime.now() has returned
    op,               \* the call that has just run, with its arguments
    ret,              \* what that call returned, or that it raised
    conversation_id,  \* MultiAgentWorkflow.conversation_id
    state,            \* MultiAgentWorkflow._state: None or an ExamHelperState
    checkpoint,       \* MultiAgentWorkflow.memory: thread_id -> the messages channel
    turns,            \* the process_query calls made so far
    saved,            \* the last _save_conversation of the active conversation
                      \* completed and its record has not been deleted since
    writers           \* processes inside add_message / update_metadata: what
                      \* each has read and not yet written

storeVars == <<files, clock, op, ret, conversation_id>>
flowVars == <<state, checkpoint, turns, saved>>
vars == <<files, clock, op, ret, conversation_id, state, checkpoint, turns, saved, writers>>

(***************************************************************************)
(* Bounds of the model.                                                    *)
(***************************************************************************)
MaxClock == 3
MaxTurns == 2

(***************************************************************************)
(* Python values and their JSON encoding.                                  *)
(***************************************************************************)
None == [None |-> TRUE]
IsNone(x) == DOMAIN x = {"None"}

PyStr(s) == [t |-> "str", v |-> s]
PyInt(n) == [t |-> "int", v |-> n]
PyTime(n) == [t |-> "iso", v |-> n]

EmptyDict == [k \in {} |-> PyStr("")]

\* A dump that writes every scalar through str().
JsonDumpValue_AllStr(v) ==
    CASE v.t = "str" -> [j |-> "string", v |-> v.v]
      [] v.t = "iso" -> [j |-> "isostring", v |-> v.v]
      [] v.t = "int" -> [j |-> "string", v |-> v.v]

\* json.dump(..., default=str) of one scalar: str and the isoformat strings
\* become JSON strings, int becomes a JSON number.
JsonDumpValue(v) ==
    CASE v.t = "str" -> [j |-> "string", v |-> v.v]
      [] v.t = "iso" -> [j |-> "isostring", v |-> v.v]
      [] v.t = "int" -> [j |-> "number", v |-> v.v]

\* json.load of one scalar.
JsonLoadValue(j) ==
    CASE j.j = "string" -> PyStr(j.v)
      [] j.j = "isostring" -> PyTime(j.v)
      [] j.j = "number" -> PyInt(j.v)

JsonDumpDict(d) == [k \in DOMAIN d |-> JsonDumpValue(d[k])]
JsonLoadDict(d) == [k \in DOMAIN d |-> JsonLoadValue(d[k])]

\* A message dict may carry a nested "metadata" dict (add_message).
JsonDumpMessage(m) ==
    [k \in DOMAIN m |-> IF k = "metadata" THEN JsonDumpDict(m[k]) ELSE JsonDumpValue(m[k])]
JsonLoadMessage(m) ==
    [k \in DOMAIN m |-> IF k = "metadata" THEN JsonLoadDict(m[k]) ELSE JsonLoadValue(m[k])]

\* json.dump of the record save_conversation builds.
JsonDump(data) ==
    [conversation_id |-> data.conversation_id,
     updated_at |-> JsonDumpValue(data.updated_at),
     created_at |-> JsonDumpValue(data.created_at),
     messages |-> [i \in DOMAIN data.messages |-> JsonDumpMessage(data.messages[i])],
     metadata |-> JsonDumpDict(data.metadata)]

\* json.load of a well-formed record file.
JsonLoad(text) ==
    [conversation_id |-> text.conversation_id,
     updated_at |-> JsonLoadValue(text.updated_at),
     created_at |-> JsonLoadValue(text.created_at),
     messages |-> [i \in DOMAIN text.messages |-> JsonLoadMessage(text.messages[i])],
     metadata |-> JsonLoadDict(text.metadata)]

(***************************************************************************)
(* Conversation identifiers and file names.                                *)
(***************************************************************************)
IdAB == <<"a", "/", "b">>
IdA_B == <<"a", "_", "b">>
IdS1 == <<"s", "1">>
Ids == {IdAB, IdA_B, IdS1}

\* The identifiers reset() mints: "therapy_session_<hash of 8 random bytes>".
IdN1 == <<"n", "1">>
MintedIds == {IdN1}
AllIds == Ids \cup MintedIds

\* _get_conversation_path: "/" and "\" become "_".
SafeId(id) == [i \in DOMAIN id |-> IF id[i] \in {"/", "\\"} THEN "_" ELSE id[i]]

Paths == {SafeId(id) : id \in AllIds}

(***************************************************************************)
(* File contents.                                                          *)
(***************************************************************************)
NoFile == [kind |-> "missing"]
Truncated == [kind |-> "truncated"]     \* exists, json.load raises JSONDecodeError
Unreadable == [kind |-> "unreadable"]   \* exists, open(..., "r") raises IOError
JsonFile(text) == [kind |-> "json", text |-> text]

Exists(f) == f.kind # "missing"

Ok(v) == [raised |-> FALSE, val |-> v]
Raised(e) == [raised |-> TRUE, val |-> e]

(***************************************************************************)
(* ConversationStore.  Every operation is an operator from the directory   *)
(* (and the call's arguments and the environment's choices) to the value   *)
(* returned and the directory afterwards.                                  *)
(***************************************************************************)
WriteOutcomes == {"ok", "open_fails", "dump_fails"}

\* `metadata or {}`
OrEmpty(metadata) ==
    IF IsNone(metadata) \/ DOMAIN metadata = {} THEN EmptyDict ELSE metadata

\* A save that stamps created_at anew on every write.
CreatedAt_Restamped(f, updated_at) == updated_at

\* Lines 62-70: the created_at of the file being overwritten if it decodes,
\* else the instant of this save.
CreatedAt(f, updated_at) ==
    IF f.kind = "json" THEN JsonLoad(f.text).created_at ELSE updated_at

\* save_conversation.  t is datetime.now(); w is how the write ends: it
\* succeeds, open(file_path, "w") raises, or the dump stops after the file
\* was truncated.
save_conversation(fs, id, messages, metadata, t, w) ==
    LET path == SafeId(id)
        f == fs[path]
        updated_at == PyTime(t)
    IN  IF f.kind = "unreadable"
        THEN [ret |-> Raised("IOError"), files |-> fs]
        ELSE LET created_at == CreatedAt(f, updated_at)
                 data == [conversation_id |-> id,
                          updated_at |-> updated_at,
                          created_at |-> created_at,
                          messages |-> messages,
                          metadata |-> OrEmpty(metadata)]
             IN  CASE w = "ok" ->
                        [ret |-> Ok(None),
                         files |-> [fs EXCEPT ![path] = JsonFile(JsonDump(data))]]
                   [] w = "open_fails" ->
                        [ret |-> Raised("OSError"), files |-> fs]
                   [] w = "dump_fails" ->
                        [ret |-> Raised("OSError"),
                         files |-> [fs EXCEPT ![path] = Truncated]]

\* A load that catches JSONDecodeError only.
load_conversation_IOErrorUncaught(fs, id) ==
    LET f == fs[SafeId(id)]
    IN  CASE f.kind = "missing" -> Ok(None)
          [] f.kind = "json" -> Ok(JsonLoad(f.text))
          [] f.kind = "truncated" -> Ok(None)
          [] f.kind = "unreadable" -> Raised("IOError")

\* load_conversation: JSONDecodeError and IOError are caught.
load_conversation(fs, id) ==
    LET f == fs[SafeId(id)]
    IN  CASE f.kind = "missing" -> Ok(None)
          [] f.kind = "json" -> Ok(JsonLoad(f.text))
          [] f.kind = "truncated" -> Ok(None)
          [] f.kind = "unreadable" -> Ok(None)

\* get_messages
get_messages(fs, id) ==
    LET r == load_conversation(fs, id)
    IN  IF r.raised THEN r
        ELSE IF IsNone(r.val) THEN Ok(<<>>) ELSE Ok(r.val.messages)

\* add_message: t1 is the message's timestamp, t2 the save's.
add_message(fs, id, role, content, metadata, t1, t2, w) ==
    LET got == get_messages(fs, id)
        base == [role |-> PyStr(role), content |-> PyStr(content), timestamp |-> PyTime(t1)]
        message == IF IsNone(metadata) \/ DOMAIN metadata = {}
                   THEN base
                   ELSE [k \in DOMAIN base \cup {"metadata"} |->
                            IF k = "metadata" THEN metadata ELSE base[k]]
        existing_data == load_conversation(fs, id)
    IN  IF got.raised THEN [ret |-> got, files |-> fs]
        ELSE IF existing_data.raised THEN [ret |-> existing_data, files |-> fs]
        ELSE LET conv_metadata == IF IsNone(existing_data.val)
                                  THEN EmptyDict
                                  ELSE existing_data.val.metadata
             IN  save_conversation(fs, id, Append(got.val, message), conv_metadata, t2, w)

\* An update in which the stored keys win.
update_metadata_OldWins(fs, id, metadata, t, w) ==
    LET existing == load_conversation(fs, id)
    IN  IF existing.raised THEN [ret |-> existing, files |-> fs]
        ELSE IF ~IsNone(existing.val)
        THEN save_conversation(fs, id, existing.val.messages,
                               existing.val.metadata @@ metadata, t, w)
        ELSE save_conversation(fs, id, <<>>, metadata, t, w)

\* update_metadata: dict.update, the new keys win.
update_metadata(fs, id, metadata, t, w) ==
    LET existing == load_conversation(fs, id)
    IN  IF existing.raised THEN [ret |-> existing, files |-> fs]
        ELSE IF ~IsNone(existing.val)
        THEN save_conversation(fs, id, existing.val.messages,
                               metadata @@ existing.val.metadata, t, w)
        ELSE save_conversation(fs, id, <<>>, metadata, t, w)

\* A delete that reports TRUE whether or not there was a file.
delete_conversation_AlwaysTrue(fs, id) ==
    [ret |-> Ok(TRUE), files |-> [fs EXCEPT ![SafeId(id)] = NoFile]]

\* delete_conversation
delete_conversation(fs, id) ==
    LET path == SafeId(id)
    IN  IF Exists(fs[path])
        THEN [ret |-> Ok(TRUE), files |-> [fs EXCEPT ![path] = NoFile]]
        ELSE [ret |-> Ok(FALSE), files |-> fs]

\* The summary list_conversations builds of one record.
Summary(data) ==
    [conversation_id |-> data.conversation_id,
     created_at |-> data.created_at,
     updated_at |-> data.updated_at,
     message_count |-> Len(data.messages)]

\* list.sort(key=updated_at, reverse=True): stable, so an element goes behind
\* the elements already placed whose key is greater or equal.
RECURSIVE SortByUpdatedDesc(_)
SortByUpdatedDesc(s) ==
    IF s = <<>> THEN <<>>
    ELSE LET n == Len(s)
             front == SortByUpdatedDesc(SubSeq(s, 1, n - 1))
             x == s[n]
             k == Cardinality({i \in 1..Len(front) : front[i].updated_at.v >= x.updated_at.v})
         IN  SubSeq(front, 1, k) \o <<x>> \o SubSeq(front, k + 1, Len(front))

\* The orders in which glob("*.json") may yield the files that exist.
GlobOrders(fs) ==
    LET present == {p \in DOMAIN fs : Exists(fs[p])}
    IN  {s \in [1..Cardinality(present) -> present] :
            \A i, j \in DOMAIN s : i # j => s[i] # s[j]}

RECURSIVE Summaries(_, _)
Summaries(fs, order) ==
    IF order = <<>> THEN <<>>
    ELSE LET f == fs[Head(order)]
             rest == Summaries(fs, Tail(order))
         IN  IF f.kind = "json" THEN <<Summary(JsonLoad(f.text))>> \o rest ELSE rest

\* A listing in glob order, the sort left out.
list_conversations_Unsorted(fs, order) == Ok(Summaries(fs, order))

\* list_conversations, the files coming in glob order `order`.
list_conversations(fs, order) == Ok(SortByUpdatedDesc(Summaries(fs, order)))

\* clear_all
clear_all(fs) ==
    [ret |-> Ok(Cardinality({p \in DOMAIN fs : Exists(fs[p])})),
     files |-> [p \in DOMAIN fs |-> NoFile]]


(***************************************************************************)
(* The store's callers: the arguments the calls are made with.             *)
(***************************************************************************)
MsgUser == [role |-> PyStr("user"), content |-> PyStr("hi")]
MsgAssistant == [role |-> PyStr("assistant"), content |-> PyStr("yo")]
MessageLists == {<<>>, <<MsgUser, MsgAssistant>>}

MetaExplain == [user_intent |-> PyStr("explain")]
MetaLearn1 == [user_intent |-> PyStr("learn"), turn_count |-> PyInt(1)]
MetaTurn2 == [turn_count |-> PyInt(2)]
Metadatas == {None, EmptyDict, MetaLearn1}
Partials == {MetaTurn2, MetaExplain}
MessageMetadatas == {None, [source |-> PyStr("web")]}

\* datetime.now(): an instant later than every instant read before.
Now == {t \in {clock + 1} : t <= MaxClock}

\* How the writes of the calls made on the store directly end.
StoreWriteOutcomes == {"ok", "dump_fails"}

Call(name, id) == [name |-> name, id |-> id]

\* The processes that use the store at the same time, and one that is in no
\* call.
Writers == {"w1", "w2"}
IdleWriter == [pc |-> "idle", calls |-> 0, sent |-> <<>>, clean |-> TRUE, local |-> None]

(***************************************************************************)
(* The store's operations as actions.                                      *)
(***************************************************************************)
SaveConversation(id, messages, metadata, t, w) ==
    LET r == save_conversation(files, id, messages, metadata, t, w)
    IN  /\ files' = r.files
        /\ ret' = r.ret
        /\ clock' = t
        /\ op' = [name |-> "save_conversation", id |-> id,
                  messages |-> messages, metadata |-> metadata]
        /\ UNCHANGED conversation_id

LoadConversation(id) ==
    /\ ret' = load_conversation(files, id)
    /\ op' = Call("load_conversation", id)
    /\ UNCHANGED <<files, clock, conversation_id>>

GetMessages(id) ==
    /\ ret' = get_messages(files, id)
    /\ op' = Call("get_messages", id)
    /\ UNCHANGED <<files, clock, conversation_id>>

AddMessage(id, role, content, metadata, t1, t2, w) ==
    LET r == add_message(files, id, role, content, metadata, t1, t2, w)
    IN  /\ files' = r.files
        /\ ret' = r.ret
        /\ clock' = t2
        /\ op' = Call("add_message", id)
        /\ UNCHANGED conversation_id

UpdateMetadata(id, metadata, t, w) ==
    LET r == update_metadata(files, id, metadata, t, w)
    IN  /\ files' = r.files
        /\ ret' = r.ret
        /\ clock' = t
        /\ op' = [name |-> "update_metadata", id |-> id, metadata |-> metadata]
        /\ UNCHANGED conversation_id

DeleteConversation(id) ==
    LET r == delete_conversation(files, id)
    IN  /\ files' = r.files
        /\ ret' = r.ret
        /\ op' = Call("delete_conversation", id)
        /\ UNCHANGED <<clock, conversation_id>>

ListConversations(order) ==
    /\ ret' = list_conversations(files, order)
    /\ op' = [name |-> "list_conversations"]
    /\ UNCHANGED <<files, clock, conversation_id>>

ClearAll ==
    LET r == clear_all(files)
    IN  /\ files' = r.files
        /\ ret' = r.ret
        /\ op' = [name |-> "clear_all"]
        /\ UNCHANGED <<clock, conversation_id>>

\* MultiAgentWorkflow.delete_conversation: the store's delete on the active id.
WorkflowDeleteConversation ==
    LET r == delete_conversation(files, conversation_id)
    IN  /\ files' = r.files
        /\ ret' = r.ret
        /\ op' = Call("workflow.delete_conversation", conversation_id)
        /\ UNCHANGED <<clock, conversation_id>>

\* The environment takes the read permission of a file away.
Chmod(path) ==
    /\ files[path].kind \in {"json", "truncated"}
    /\ files' = [files EXCEPT ![path] = Unreadable]
    /\ ret' = Ok(None)
    /\ op' = [name |-> "chmod", path |-> path]
    /\ UNCHANGED <<clock, conversation_id>>

StoreInit ==
    /\ files = [p \in Paths |-> NoFile]
    /\ clock = 0
    /\ op = [name |-> "init"]
    /\ ret = Ok(None)
    /\ conversation_id = IdAB
    /\ state = None
    /\ checkpoint = [id \in AllIds |-> <<>>]
    /\ turns = 0
    /\ saved = FALSE
    /\ writers = [w \in Writers |-> IdleWriter]

StoreNext ==
    \/ \E id \in Ids, m \in MessageLists, md \in Metadatas, t \in Now, w \in StoreWriteOutcomes :
          SaveConversation(id, m, md, t, w)
    \/ \E id \in Ids : LoadConversation(id)
    \/ \E id \in Ids : GetMessages(id)
    \/ \E id \in Ids, m \in {MsgAssistant}, md \in MessageMetadatas,
          t1 \in Now, w \in StoreWriteOutcomes :
          \E t2 \in {t \in {t1 + 1} : t <= MaxClock} :
             AddMessage(id, m.role.v, m.content.v, md, t1, t2, w)
    \/ \E id \in Ids, md \in Partials, t \in Now, w \in StoreWriteOutcomes :
          UpdateMetadata(id, md, t, w)
    \/ \E id \in Ids : DeleteConversation(id)
    \/ \E order \in GlobOrders(files) : ListConversations(order)
    \/ ClearAll
    \/ WorkflowDeleteConversation
    \/ \E p \in Paths : Chmod(p)

StoreStep == StoreNext /\ UNCHANGED <<flowVars, writers>>

StoreSpec == StoreInit /\ [][StoreStep]_vars

\* Listing a storage directory that also holds a file an interrupted write
\* left behind.
ListInit ==
    /\ files = [p \in Paths |-> IF p = SafeId(IdN1) THEN Truncated ELSE NoFile]
    /\ clock = 0
    /\ op = [name |-> "init"]
    /\ ret = Ok(None)
    /\ conversation_id = IdAB
    /\ state = None
    /\ checkpoint = [id \in AllIds |-> <<>>]
    /\ turns = 0
    /\ saved = FALSE
    /\ writers = [w \in Writers |-> IdleWriter]

ListNext ==
    \/ \E id \in Ids, m \in MessageLists, md \in Metadatas, t \in Now, w \in StoreWriteOutcomes :
          SaveConversation(id, m, md, t, w)
    \/ \E id \in Ids : DeleteConversation(id)
    \/ \E order \in GlobOrders(files) : ListConversations(order)
    \/ \E p \in Paths : Chmod(p)

ListStep == ListNext /\ UNCHANGED <<flowVars, writers>>

ListSpec == ListInit /\ [][ListStep]_vars

(***************************************************************************)
(* Claims about the store.                                                 *)
(***************************************************************************)
WriteOps == {"save_conversation", "add_message", "update_metadata"}

\* What a reader finds in the file of path p: the decoded record, or None.
Stored(fs, p) == IF fs[p].kind = "json" THEN JsonLoad(fs[p].text) ELSE None

C2_CreatedAtKept ==
    [][(op'.name \in WriteOps /\ ~ret'.raised) =>
          LET p == SafeId(op'.id)
              new == Stored(files', p)
              old == Stored(files, p)
          IN  /\ ~IsNone(new)
              /\ new.updated_at = PyTime(clock')
              /\ clock' > clock
              /\ ~IsNone(old) => new.created_at = old.created_at
              /\ ~Exists(files[p]) => new.created_at = new.updated_at
              /\ new.created_at.v <= new.updated_at.v
      ]_vars

C2_Witness ==
    /\ op.name \in WriteOps
    /\ ~ret.raised
    /\ LET r == Stored(files, SafeId(op.id))
       IN  ~IsNone(r) /\ r.created_at.v + 2 <= r.updated_at.v

C4_Delete ==
    [][/\ op'.name \in {"delete_conversation", "workflow.delete_conversation"} =>
             /\ ~ret'.raised
             /\ ret'.val = Exists(files[SafeId(op'.id)])
             /\ IsNone(load_conversation(files', op'.id).val)
             /\ delete_conversation(files', op'.id).ret.val = FALSE
       /\ op'.name = "workflow.delete_conversation" =>
             /\ op'.id = conversation_id
             /\ ret' = delete_conversation(files, conversation_id).ret
       /\ \A p \in Paths :
             (~Exists(files[p]) /\ Exists(files'[p])) =>
                (op'.name \in WriteOps /\ SafeId(op'.id) = p)
      ]_vars

C4_Witness ==
    /\ op.name = "workflow.delete_conversation"
    /\ ret.val = TRUE
    /\ IsNone(load_conversation(files, conversation_id).val)

\* C5: update_metadata(id, partial) on an existing record gives the old
\* metadata overridden by partial and leaves messages and created_at alone;
\* with no record it creates one with no messages and metadata partial.
C5_UpdateMetadata ==
    [][(op'.name = "update_metadata" /\ ~ret'.raised) =>
          LET md == op'.metadata
              old == load_conversation(files, op'.id).val
              new == load_conversation(files', op'.id).val
          IN  /\ ~IsNone(new)
              /\ ~IsNone(old) =>
                    /\ new.messages = old.messages
                    /\ new.created_at = old.created_at
                    /\ DOMAIN new.metadata = DOMAIN old.metadata \cup DOMAIN md
                    /\ \A k \in DOMAIN new.metadata :
                          new.metadata[k] = IF k \in DOMAIN md THEN md[k]
                                            ELSE old.metadata[k]
              /\ IsNone(old) =>
                    /\ new.messages = <<>>
                    /\ new.metadata = md
      ]_vars

C5_Witness ==
    /\ op.name = "update_metadata"
    /\ ~ret.raised
    /\ LET r == Stored(files, SafeId(op.id))
       IN  /\ ~IsNone(r)
           /\ Len(r.messages) = 2
           /\ DOMAIN r.metadata = {"user_intent", "turn_count"}
           /\ r.metadata["user_intent"] = PyStr("explain")
           /\ r.metadata["turn_count"] = PyInt(1)

UpperCase == <<"A", "B", "C", "D", "E", "F", "G", "H", "I", "J", "K", "L", "M",
               "N", "O", "P", "Q", "R", "S", "T", "U", "V", "W", "X", "Y", "Z">>
LowerCase == <<"a", "b", "c", "d", "e", "f", "g", "h", "i", "j", "k", "l", "m",
               "n", "o", "p", "q", "r", "s", "t", "u", "v", "w", "x", "y", "z">>
Whitespace == {" ", "\n", "\t"}

\* str.lower()
LowerChar(c) ==
    IF \E i \in DOMAIN UpperCase : UpperCase[i] = c
    THEN LowerCase[CHOOSE i \in DOMAIN UpperCase : UpperCase[i] = c]
    ELSE c
Lower(str) == [i \in DOMAIN str |-> LowerChar(str[i])]

\* str.strip()
Strip(str) ==
    LET keep == {i \in DOMAIN str : str[i] \notin Whitespace}
    IN  IF keep = {} THEN <<>>
        ELSE LET first == CHOOSE i \in keep : \A j \in keep : i <= j
                 last == CHOOSE i \in keep : \A j \in keep : i >= j
             IN  SubSeq(str, first, last)

WordExplain == <<"e", "x", "p", "l", "a", "i", "n">>
WordLearn == <<"l", "e", "a", "r", "n">>

\* A classifier that compares the reply as it came.
detect_intent_Verbatim(api_key, outcome, reply) ==
    IF ~api_key \/ outcome # "text"
    THEN Ok("unknown")
    ELSE CASE reply = WordExplain -> Ok("explain")
           [] reply = WordLearn -> Ok("learn")
           [] OTHER -> Ok("unknown")

\* detect_intent(message).  api_key: GOOGLE_API_KEY is set (get_llm raises
\* ValueError without it); outcome: llm.invoke raises, returns a text, or
\* returns a content that is a list of blocks (no .strip()).
detect_intent(api_key, outcome, reply) ==
    IF ~api_key \/ outcome # "text"
    THEN Ok("unknown")
    ELSE LET intent == Lower(Strip(reply))
         IN  CASE intent = WordExplain -> Ok("explain")
               [] intent = WordLearn -> Ok("learn")
               [] OTHER -> Ok("unknown")

ReplyBodies ==
    {WordExplain, WordLearn,
     <<"E", "x", "p", "l", "a", "i", "n">>, <<"L", "E", "A", "R", "N">>,
     <<"b", "a", "n", "a", "n", "a">>, <<>>,
     <<"e", "x", "p", "l", "a", "i", "n", ".">>,
     <<"l", "e", " ", "a", "r", "n">>,
     <<"e", "x", "p", "l", "a", "i", "n", " ", "l", "e", "a", "r", "n">>}
ReplyMargins == {<<>>, <<" ">>, <<"\n", "\t">>}
Replies == {a \o b \o c : a \in ReplyMargins, b \in ReplyBodies, c \in ReplyMargins}
InvokeOutcomes == {"text", "raises", "blocks"}

DetectIntent(api_key, outcome, reply) ==
    /\ ret' = detect_intent(api_key, outcome, reply)
    /\ op' = [name |-> "detect_intent", api_key |-> api_key,
              outcome |-> outcome, reply |-> reply]
    /\ UNCHANGED <<files, clock, conversation_id>>

IntentNext ==
    \E api_key \in BOOLEAN, outcome \in InvokeOutcomes, reply \in Replies :
       DetectIntent(api_key, outcome, reply)

IntentStep == IntentNext /\ UNCHANGED <<flowVars, writers>>

IntentSpec == StoreInit /\ [][IntentStep]_vars

\* C7: detect_intent never raises and returns explain, learn or unknown; it
\* returns explain or learn exactly when the completion call returned a text
\* that, stripped and lower-cased, is that label; for every other reply and
\* for every failure of the call (a missing credential too) it returns unknown.
C7_DetectIntent ==
    op.name = "detect_intent" =>
       LET completed == op.api_key /\ op.outcome = "text"
           word == Lower(Strip(op.reply))
       IN  /\ ~ret.raised
           /\ ret.val \in {"explain", "learn", "unknown"}
           /\ ret.val = "explain" <=> (completed /\ word = WordExplain)
           /\ ret.val = "learn" <=> (completed /\ word = WordLearn)

C7_Witness ==
    /\ op.name = "detect_intent"
    /\ op.api_key
    /\ op.outcome = "text"
    /\ op.reply = <<"E", "x", "p", "l", "a", "i", "n", " ">>
    /\ ret.val = "explain"

(***************************************************************************)
(* ExamHelperState and the messages of a conversation in memory.           *)
(***************************************************************************)
HumanMessage(content) == [type |-> "human", content |-> content, tool_calls |-> FALSE, id |-> 0]
AIMessage(content, tool_calls) ==
    [type |-> "ai", content |-> content, tool_calls |-> tool_calls, id |-> 0]
ToolMessage(content) == [type |-> "tool", content |-> content, tool_calls |-> FALSE, id |-> 0]

\* The truth value Python gives a content.
Truthy(v) == IF IsNone(v) THEN FALSE ELSE v.v # ""

\* get_initial_state
get_initial_state ==
    [messages |-> <<>>,
     user_query |-> "",
     user_intent |-> "unknown",
     session_summary |-> "",
     turn_count |-> 0,
     current_response |-> None,
     error |-> <<>>,
     orchestrator_result |-> None]

\* The reducer of the messages channel (Annotated[..., add_messages]): a
\* message whose id is already in the list replaces that entry, any other is
\* appended; a message without id (0) is given one, here its position.
RECURSIVE add_messages(_, _)
add_messages(left, right) ==
    IF right = <<>> THEN left
    ELSE LET m == Head(right)
             hit == {i \in DOMAIN left : m.id # 0 /\ left[i].id = m.id}
         IN  IF hit # {}
             THEN add_messages([left EXCEPT ![CHOOSE i \in hit : TRUE] = m], Tail(right))
             ELSE add_messages(
                     Append(left, [m EXCEPT !.id = IF m.id = 0 THEN Len(left) + 1 ELSE m.id]),
                     Tail(right))

\* A node's update folded into the state: messages through the reducer, every
\* other key the update names overwritten.
ApplyUpdate(st, update) ==
    [k \in DOMAIN st |->
        IF k \in DOMAIN update
        THEN IF k = "messages" THEN add_messages(st.messages, update.messages)
             ELSE update[k]
        ELSE st[k]]

(***************************************************************************)
(* OrchestratorNode.process                                                *)
(***************************************************************************)
\* _extract_text of a content that is a string.
extract_text(content) == content

\* A scan that looks at the final message only.
LastUserMessage_LastElement(messages) ==
    IF messages = <<>> THEN PyStr("")
    ELSE LET m == messages[Len(messages)]
         IN  IF m.type = "human" THEN m.content ELSE PyStr("")

\* Lines 43-47: the content of the last HumanMessage, "" if there is none.
RECURSIVE LastUserMessage(_)
LastUserMessage(messages) ==
    IF messages = <<>> THEN PyStr("")
    ELSE LET m == messages[Len(messages)]
         IN  IF m.type = "human" THEN m.content
             ELSE LastUserMessage(SubSeq(messages, 1, Len(messages) - 1))

\* A node that classifies every turn's message.
ClassifierRuns_EveryTurn(current_intent, user_msg) == Truthy(user_msg)

\* Line 51: whether detect_intent is called.
ClassifierRuns(current_intent, user_msg) == current_intent = "unknown" /\ Truthy(user_msg)

\* Lines 64-75: the loop over reversed(result["messages"]), from index i down.
RECURSIVE ScanReply(_, _, _)
ScanReply(messages, i, ai_message) ==
    IF i = 0 THEN [orchestrator_response |-> PyStr(""), ai_message |-> ai_message]
    ELSE LET msg == messages[i]
         IN  IF msg.type = "tool" /\ Truthy(msg.content)
             THEN [orchestrator_response |-> msg.content, ai_message |-> ai_message]
             ELSE IF msg.type = "ai" /\ Truthy(msg.content) /\ ~msg.tool_calls
             THEN ScanReply(messages, i - 1, extract_text(msg.content))
             ELSE ScanReply(messages, i - 1, ai_message)

ExtractReply(messages) ==
    LET r == ScanReply(messages, Len(messages), PyStr(""))
    IN  IF r.orchestrator_response.v = "" THEN r.ai_message ELSE r.orchestrator_response

\* OrchestratorAgent.get_prompt: the intent the prompt embeds.
get_prompt(st) == st.user_intent

NodeError == "Orchestrator node failed: boom"

\* A node whose failure update also carries the loop's messages and the
\* classified intent.
process_PartialUpdate(st, env) ==
    LET user_msg == LastUserMessage(st.messages)
        runs == ClassifierRuns(st.user_intent, user_msg)
        detected == detect_intent(TRUE, env.outcome, env.reply)
        current_intent == IF runs THEN detected.val ELSE st.user_intent
        result == st.messages \o env.trace
    IN  [detect_calls |-> IF runs THEN 1 ELSE 0,
         prompt_intent |-> get_prompt(st),
         update |->
            IF (runs /\ detected.raised) \/ env.fail
            THEN [messages |-> result, user_intent |-> current_intent,
                  orchestrator_result |-> None, error |-> <<NodeError>>]
            ELSE [messages |-> result, user_intent |-> current_intent,
                  orchestrator_result |-> ExtractReply(result)]]

\* process(state).  env: the classifier's completion (outcome, reply), whether
\* tool building, prompt building or the tool-calling loop raises (fail), and
\* the messages the loop appends (trace).
process(st, env) ==
    LET user_msg == LastUserMessage(st.messages)
        runs == ClassifierRuns(st.user_intent, user_msg)
        detected == detect_intent(TRUE, env.outcome, env.reply)
        current_intent == IF runs THEN detected.val ELSE st.user_intent
        result == st.messages \o env.trace
    IN  [detect_calls |-> IF runs THEN 1 ELSE 0,
         prompt_intent |-> get_prompt(st),
         update |->
            IF (runs /\ detected.raised) \/ env.fail
            THEN [orchestrator_result |-> None, error |-> <<NodeError>>]
            ELSE [messages |-> result,
                  user_intent |-> current_intent,
                  orchestrator_result |-> ExtractReply(result)]]

(***************************************************************************)
(* MultiAgentWorkflow                                                      *)
(***************************************************************************)
\* _load_conversation_history, lines 71-75: the stored messages replayed.
RECURSIVE Replay(_)
Replay(stored) ==
    IF stored = <<>> THEN <<>>
    ELSE LET msg == Head(stored)
             content == IF "content" \in DOMAIN msg THEN msg.content ELSE PyStr("")
             role == IF "role" \in DOMAIN msg THEN msg.role ELSE None
         IN  IF role = PyStr("user") THEN <<HumanMessage(content)>> \o Replay(Tail(stored))
             ELSE IF role = PyStr("assistant")
             THEN <<AIMessage(content, FALSE)>> \o Replay(Tail(stored))
             ELSE Replay(Tail(stored))

\* A hydration that takes any decodable record as history.
load_conversation_history_AnyRecord(st, fs, id) ==
    LET stored_messages == get_messages(fs, id).val
        conversation_data == load_conversation(fs, id).val
        hydrated == [get_initial_state EXCEPT !.messages = Replay(stored_messages)]
    IN  IF IsNone(conversation_data) THEN st
        ELSE IF DOMAIN conversation_data.metadata # {}
        THEN LET metadata == conversation_data.metadata
             IN  [hydrated EXCEPT
                    !.user_intent = IF "user_intent" \in DOMAIN metadata
                                    THEN metadata.user_intent.v ELSE "unknown",
                    !.turn_count = IF "turn_count" \in DOMAIN metadata
                                   THEN metadata.turn_count.v ELSE 0]
        ELSE hydrated

\* _load_conversation_history: st is self._state before the call.
load_conversation_history(st, fs, id) ==
    LET stored_messages == get_messages(fs, id).val
        conversation_data == load_conversation(fs, id).val
        hydrated == [get_initial_state EXCEPT !.messages = Replay(stored_messages)]
    IN  IF stored_messages = <<>> THEN st
        ELSE IF ~IsNone(conversation_data) /\ DOMAIN conversation_data.metadata # {}
        THEN LET metadata == conversation_data.metadata
             IN  [hydrated EXCEPT
                    !.user_intent = IF "user_intent" \in DOMAIN metadata
                                    THEN metadata.user_intent.v ELSE "unknown",
                    !.turn_count = IF "turn_count" \in DOMAIN metadata
                                   THEN metadata.turn_count.v ELSE 0]
        ELSE hydrated

\* A save that keeps the assistant messages that carry tool calls.
RECURSIVE PersistedMessages_ToolCallsKept(_)
PersistedMessages_ToolCallsKept(messages) ==
    IF messages = <<>> THEN <<>>
    ELSE LET msg == Head(messages)
             rest == PersistedMessages_ToolCallsKept(Tail(messages))
         IN  IF msg.type = "human"
             THEN <<[role |-> PyStr("user"), content |-> msg.content]>> \o rest
             ELSE IF msg.type = "ai" /\ Truthy(msg.content)
             THEN <<[role |-> PyStr("assistant"), content |-> msg.content]>> \o rest
             ELSE rest

\* _save_conversation, lines 91-103: what is kept of the messages in memory.
RECURSIVE PersistedMessages(_)
PersistedMessages(messages) ==
    IF messages = <<>> THEN <<>>
    ELSE LET msg == Head(messages)
             rest == PersistedMessages(Tail(messages))
         IN  IF msg.type = "human"
             THEN <<[role |-> PyStr("user"), content |-> msg.content]>> \o rest
             ELSE IF msg.type = "ai" /\ Truthy(msg.content) /\ ~msg.tool_calls
             THEN <<[role |-> PyStr("assistant"), content |-> msg.content]>> \o rest
             ELSE rest

\* _save_conversation, lines 105-108.
PersistedMetadata(st) ==
    [user_intent |-> PyStr(st.user_intent), turn_count |-> PyInt(st.turn_count)]

\* _save_conversation
save_current_conversation(st, fs, id, t, w) ==
    IF IsNone(st) THEN [ret |-> Ok(None), files |-> fs]
    ELSE save_conversation(fs, id, PersistedMessages(st.messages), PersistedMetadata(st), t, w)

\* _get_current_state
get_current_state(st) == IF IsNone(st) THEN get_initial_state ELSE st

Fallback == PyStr("Hi there! What's up?")

\* workflow.invoke(state, config): the graph START -> orchestrator -> END over
\* the thread's checkpoint.  The input is written to the channels (messages
\* through the reducer), then the node's update.
workflow_invoke(input, channel, env) ==
    LET entered == [input EXCEPT !.messages = add_messages(channel, input.messages)]
        node == process(entered, env)
    IN  [final_state |-> ApplyUpdate(entered, node.update),
         node_failed |-> "error" \in DOMAIN node.update,
         detect_calls |-> node.detect_calls,
         prompt_intent |-> node.prompt_intent]

\* A load that hydrates over the state in memory.
workflow_load_conversation_StateKept(st, fs, id) == load_conversation_history(st, fs, id)

\* load_conversation, line 241 and 242: the state is dropped, then hydrated.
workflow_load_conversation(st, fs, id) == load_conversation_history(None, fs, id)

(***************************************************************************)
(* The coordinator's environment: what a turn is given.                    *)
(***************************************************************************)
UserTexts == <<"q1", "q2", "q3", "q4">>
ReplyTexts == <<"r1", "r2", "r3", "r4">>
ToolTexts == <<"t1", "t2", "t3", "t4">>

TraceDirect(k) == <<AIMessage(PyStr(ReplyTexts[k]), FALSE)>>
TraceTool(k) ==
    <<AIMessage(PyStr("calling"), TRUE), ToolMessage(PyStr(ToolTexts[k])),
      AIMessage(PyStr(ReplyTexts[k]), FALSE)>>
TraceSilent(k) == <<AIMessage(PyStr(""), FALSE)>>
Traces(k) == {TraceDirect(k), TraceTool(k), TraceSilent(k)}

\* The tool-calling loop of a turn: it raises, or it appends a trace.
Loops(k) ==
    {[fail |-> TRUE, trace |-> <<>>]} \cup {[fail |-> FALSE, trace |-> tr] : tr \in Traces(k)}

Classifications ==
    {[outcome |-> "text", reply |-> <<"E", "x", "p", "l", "a", "i", "n", " ">>],
     [outcome |-> "text", reply |-> WordLearn],
     [outcome |-> "raises", reply |-> <<>>]}

FlowIds == {IdS1}

\* How the write of a turn's _save_conversation ends.
FlowWriteOutcomes == {"ok", "dump_fails"}

(***************************************************************************)
(* The coordinator's operations as actions.                                *)
(***************************************************************************)
\* The turn's classification and loop, as process_query hands them down.
TurnEnv(c, loop) ==
    [outcome |-> c.outcome, reply |-> c.reply, fail |-> loop.fail, trace |-> loop.trace]

\* process_query(user_message), workflow.invoke returning.
ProcessQuery(user_message, c, loop, t, w) ==
    LET current == get_current_state(state)
        input == [current EXCEPT !.messages = Append(@, HumanMessage(PyStr(user_message))),
                                 !.user_query = user_message]
        run == workflow_invoke(input, checkpoint[conversation_id], TurnEnv(c, loop))
        final_state == run.final_state
        written == save_current_conversation(final_state, files, conversation_id, t, w)
    IN  /\ turns < MaxTurns
        /\ turns' = turns + 1
        /\ state' = final_state
        /\ checkpoint' = [checkpoint EXCEPT ![conversation_id] = final_state.messages]
        /\ files' = written.files
        /\ clock' = t
        /\ saved' = ~written.ret.raised
        /\ op' = [name |-> "process_query", user_message |-> user_message,
                  outcome |-> IF written.ret.raised THEN "save_failed"
                              ELSE IF run.node_failed THEN "node_failed"
                              ELSE "completed",
                  detect_calls |-> run.detect_calls,
                  prompt_intent |-> run.prompt_intent]
        /\ ret' = IF written.ret.raised
                  THEN Ok([success |-> FALSE, response |-> Fallback])
                  ELSE Ok([success |-> TRUE, response |-> final_state.orchestrator_result])
        /\ UNCHANGED conversation_id

\* process_query(user_message), workflow.invoke raising: the except branch.
ProcessQueryRaises(user_message) ==
    LET current == get_current_state(state)
        input == [current EXCEPT !.messages = Append(@, HumanMessage(PyStr(user_message))),
                                 !.user_query = user_message]
    IN  /\ turns < MaxTurns
        /\ turns' = turns + 1
        /\ state' = input
        /\ ret' = Ok([success |-> FALSE, response |-> Fallback])
        /\ op' = [name |-> "process_query", user_message |-> user_message,
                  outcome |-> "workflow_failed", detect_calls |-> 0,
                  prompt_intent |-> "none"]
        /\ UNCHANGED <<files, clock, conversation_id, checkpoint, saved>>

\* A reset that mints the identifier and keeps the state in memory.
Reset_StateKept(id) ==
    /\ id # conversation_id
    /\ ~Exists(files[SafeId(id)])
    /\ checkpoint[id] = <<>>
    /\ conversation_id' = id
    /\ saved' = FALSE
    /\ op' = [name |-> "reset"]
    /\ ret' = Ok(None)
    /\ UNCHANGED <<files, clock, checkpoint, turns, state>>

\* reset(): a new identifier, no state.
Reset(id) ==
    /\ id # conversation_id
    /\ ~Exists(files[SafeId(id)])
    /\ checkpoint[id] = <<>>
    /\ conversation_id' = id
    /\ state' = None
    /\ saved' = FALSE
    /\ op' = [name |-> "reset"]
    /\ ret' = Ok(None)
    /\ UNCHANGED <<files, clock, checkpoint, turns>>

\* load_conversation(conversation_id)
WorkflowLoadConversation(id) ==
    /\ conversation_id' = id
    /\ state' = workflow_load_conversation(state, files, id)
    /\ saved' = FALSE
    /\ op' = Call("workflow.load_conversation", id)
    /\ ret' = Ok(~IsNone(state'))
    /\ UNCHANGED <<files, clock, checkpoint, turns>>

\* The process ends and a new one constructs a coordinator for id
\* (__init__): a new MemorySaver, no state, then _load_conversation_history.
Restart(id) ==
    /\ conversation_id' = id
    /\ checkpoint' = [i \in AllIds |-> <<>>]
    /\ state' = load_conversation_history(None, files, id)
    /\ saved' = (saved /\ id = conversation_id)
    /\ op' = Call("restart", id)
    /\ ret' = Ok(None)
    /\ UNCHANGED <<files, clock, turns>>

\* delete_conversation() of the coordinator.
FlowDeleteConversation ==
    /\ WorkflowDeleteConversation
    /\ saved' = FALSE
    /\ UNCHANGED <<state, checkpoint, turns>>

FlowInit ==
    /\ files = [p \in Paths |-> NoFile]
    /\ clock = 0
    /\ op = [name |-> "init"]
    /\ ret = Ok(None)
    /\ conversation_id = IdS1
    /\ state = None
    /\ checkpoint = [id \in AllIds |-> <<>>]
    /\ turns = 0
    /\ saved = FALSE
    /\ writers = [w \in Writers |-> IdleWriter]

\* The classifications that can make a difference to the turn about to run.
TurnClassifications(m) ==
    IF get_current_state(state).user_intent = "unknown" /\ m # ""
    THEN Classifications
    ELSE {[outcome |-> "raises", reply |-> <<>>]}

\* One conversation: its turns, and the process restarting on the same id.
TurnNext ==
    \/ \E m \in {UserTexts[turns + 1], ""}, loop \in Loops(turns + 1), t \in Now,
          w \in WriteOutcomes :
          \E c \in TurnClassifications(m) : ProcessQuery(m, c, loop, t, w)
    \/ \E m \in {UserTexts[turns + 1], ""} : ProcessQueryRaises(m)
    \/ Restart(conversation_id)

TurnStep == TurnNext /\ UNCHANGED writers

TurnSpec == FlowInit /\ [][TurnStep]_vars

\* Session management: turns, reset, load, delete, and restarts on any id.
SessionClassifications(m) == {c \in TurnClassifications(m) : c.reply # WordLearn}

SessionNext ==
    \/ \E m \in {UserTexts[turns + 1]}, loop \in Loops(turns + 1), t \in Now,
          w \in FlowWriteOutcomes :
          \E c \in SessionClassifications(m) : ProcessQuery(m, c, loop, t, w)
    \/ \E id \in MintedIds : Reset(id)
    \/ \E id \in FlowIds : WorkflowLoadConversation(id)
    \/ \E id \in FlowIds \cup {conversation_id} : Restart(id)
    \/ FlowDeleteConversation

SessionStep == SessionNext /\ UNCHANGED writers

SessionSpec == FlowInit /\ [][SessionStep]_vars

(***************************************************************************)
(* Claims about the coordinator.                                           *)
(***************************************************************************)
Labels == {"explain", "learn"}

\* C8: once user_intent is explain or learn, every later turn of the same
\* conversation (completed, node failed, workflow failed) leaves it at that
\* value and does not call the classifier; so does a restart of the process
\* that rehydrates the conversation after a save that completed.
C8_IntentSticky ==
    [][(~IsNone(state) /\ state.user_intent \in Labels) =>
          /\ op'.name = "process_query" =>
                /\ ~IsNone(state')
                /\ state'.user_intent = state.user_intent
                /\ op'.detect_calls = 0
          /\ (op'.name = "restart" /\ saved) =>
                /\ ~IsNone(state')
                /\ state'.user_intent = state.user_intent
      ]_vars

C8_Witness ==
    /\ op.name = "restart"
    /\ turns = 2
    /\ saved
    /\ ~IsNone(state)
    /\ state.user_intent = "learn"
    /\ Len(state.messages) >= 3

IsUserMessage(msg) == msg.type = "human"
IsAssistantMessage(msg) == msg.type = "ai" /\ ~msg.tool_calls
IsUserOrAssistant(msg) == IsUserMessage(msg) \/ IsAssistantMessage(msg)
IsUserOrSpokenAssistant(msg) ==
    IsUserMessage(msg) \/ (IsAssistantMessage(msg) /\ msg.content.v # "")

AsRecordMessages(messages) ==
    [i \in DOMAIN messages |->
        [role |-> IF IsUserMessage(messages[i]) THEN PyStr("user") ELSE PyStr("assistant"),
         content |-> messages[i].content]]

TurnSaved == op.name = "process_query" /\ op.outcome \in {"completed", "node_failed"}

\* C9 as stated: the record _save_conversation writes holds exactly the user
\* messages and the assistant messages (those without tool calls) of the
\* messages in memory, in their order.
C9_AllAssistantMessagesPersisted ==
    TurnSaved =>
       Stored(files, SafeId(conversation_id)).messages =
          AsRecordMessages(SelectSeq(state.messages, IsUserOrAssistant))

\* C9, amended: the record _save_conversation writes holds exactly the user
\* messages and the assistant messages that have no tool calls and a
\* non-empty content, in their order, each with its role and content;
\* tool-call and tool-result messages are never persisted.
C9_PersistedMessages ==
    TurnSaved =>
       LET record == Stored(files, SafeId(conversation_id))
       IN  /\ ~IsNone(record)
           /\ record.messages =
                 AsRecordMessages(SelectSeq(state.messages, IsUserOrSpokenAssistant))
           /\ \A i \in DOMAIN record.messages :
                 record.messages[i].role \in {PyStr("user"), PyStr("assistant")}

C9_Witness ==
    /\ TurnSaved
    /\ \E i \in DOMAIN state.messages : state.messages[i].type = "tool"
    /\ \E i \in DOMAIN state.messages : state.messages[i].tool_calls
    /\ Len(Stored(files, SafeId(conversation_id)).messages) = 4

\* C10: load_conversation(id) writes nothing to the store and leaves the
\* state that a newly constructed coordinator for id gets from the same
\* store; a load that follows a load or a construction for the same id
\* leaves the state as it was.
C10_IdempotentHydration ==
    [][op'.name = "workflow.load_conversation" =>
          /\ files' = files
          /\ state' = load_conversation_history(None, files, op'.id)
          /\ (op.name \in {"workflow.load_conversation", "restart"} /\ op.id = op'.id) =>
                state' = state
      ]_vars

C10_Witness ==
    /\ op.name = "workflow.load_conversation"
    /\ ~IsNone(state)
    /\ Len(state.messages) = 2
    /\ state.user_intent = "explain"
    /\ checkpoint[conversation_id] # <<>>

(***************************************************************************)
(* The handlers: BaseAgent.process_query and its overrides.                *)
(***************************************************************************)
HandlerVariants == {"explainer", "learner", "orchestrator", "base"}

\* get_result_key; the base handler's key is its concrete subclass's.
ResultKey(variant) ==
    CASE variant = "explainer" -> "explainer_agent_result"
      [] variant = "learner" -> "learner_agent_result"
      [] variant = "orchestrator" -> "orchestrator_result"
      [] variant = "base" -> "agent_result"

\* A content that is a list of content blocks.
Blocks(parts) == [t |-> "blocks", v |-> parts]
\* "\n".join(parts)
Joined(parts) == [t |-> "joined", v |-> parts]

\* _extract_text_from_message: the blocks' texts that are not blank, joined;
\* a string content as it is.
extract_text_from_message(message) ==
    LET content == message.content
    IN  IF content.t = "blocks"
        THEN Joined(SelectSeq(content.v, LAMBDA p : Strip(p) # <<>>))
        ELSE content

\* What a handler's run meets: the step that raises, if any (get_prompt, or
\* the completion call / the tool loop), the exception's str(), and the
\* messages the model appends.
HandlerFails == {"none", "prompt", "call"}
ErrorTexts == {"boom", ""}
HandlerContents ==
    {PyStr("r1"), PyStr(""), Blocks(<<<<"a">>, <<" ">>, <<"b">>>>)}
HandlerQueries == {"q1", ""}

\* A handler whose except clause is missing.
handler_process_query_Unguarded(variant, query, st, env) ==
    IF env.fail # "none" THEN Raised(env.message)
    ELSE Ok([k \in {"success", ResultKey(variant), "error"} |->
                CASE k = "success" -> TRUE
                  [] k = "error" -> <<>>
                  [] OTHER -> env.content])

\* process_query(query, state) of the variant.
handler_process_query(variant, query, st, env) ==
    LET key == ResultKey(variant)
        failure == [k \in {"success", key, "error"} |->
                      CASE k = "success" -> FALSE
                        [] k = "error" -> <<env.message>>
                        [] OTHER -> None]
        history == IF variant = "orchestrator"
                   THEN (IF IsNone(st) THEN <<>> ELSE st.messages)
                   ELSE <<HumanMessage(PyStr(query))>>
        messages == Append(history, AIMessage(env.content, FALSE))
        payload == CASE variant = "learner" ->
                           extract_text_from_message(messages[Len(messages)])
                     [] variant = "orchestrator" -> [messages |-> messages]
                     [] OTHER -> env.content
        keys == IF variant = "orchestrator"
                THEN {"success", key, "messages", "error"}
                ELSE {"success", key, "error"}
    IN  IF env.fail # "none" THEN Ok(failure)
        ELSE Ok([k \in keys |->
                    CASE k = "success" -> TRUE
                      [] k = "error" -> <<>>
                      [] k = "messages" -> messages
                      [] OTHER -> payload])

HandlerStates == {None, [get_initial_state EXCEPT !.messages = <<HumanMessage(PyStr("q0"))>>]}

HandlerProcessQuery(variant, query, st, env) ==
    /\ ret' = handler_process_query(variant, query, st, env)
    /\ op' = [name |-> "handler.process_query", variant |-> variant, query |-> query,
              with_state |-> ~IsNone(st), fail |-> env.fail, message |-> env.message,
              content |-> env.content]
    /\ UNCHANGED <<files, clock, conversation_id>>

HandlerNext ==
    \E variant \in HandlerVariants, query \in HandlerQueries, st \in HandlerStates,
       fail \in HandlerFails, message \in ErrorTexts, content \in HandlerContents :
       HandlerProcessQuery(variant, query, st,
                           [fail |-> fail, message |-> message, content |-> content])

HandlerStep == HandlerNext /\ UNCHANGED <<flowVars, writers>>

HandlerSpec == StoreInit /\ [][HandlerStep]_vars

\* C11: process_query of the Explain, Learn, Orchestrator and base handler
\* never raises; when get_prompt, the completion call or the tool loop raises
\* an exception with message m it returns success FALSE, None under the
\* result key and the error list [m]; when nothing raises it returns success
\* TRUE and an empty error list.
C11_HandlerIsolation ==
    op.name = "handler.process_query" =>
       /\ ~ret.raised
       /\ op.fail # "none" =>
             /\ ret.val.success = FALSE
             /\ ret.val[ResultKey(op.variant)] = None
             /\ ret.val.error = <<op.message>>
       /\ op.fail = "none" =>
             /\ ret.val.success = TRUE
             /\ ret.val.error = <<>>

C11_Witness ==
    /\ op.name = "handler.process_query"
    /\ op.variant = "learner"
    /\ op.fail = "call"
    /\ op.message = "boom"
    /\ ret.val.success = FALSE
    /\ ret.val.error = <<"boom">>

\* C12: for every user message and every outcome of the turn, process_query
\* does not raise and the response it returns (which chat returns too) is a
\* text: the reply extracted for the turn or the fallback sentence, never
\* None and never the node's error string.
C12_ResponseIsText ==
    op.name = "process_query" =>
       /\ ~ret.raised
       /\ ~IsNone(ret.val.response)
       /\ ret.val.response.t = "str"
       /\ ret.val.response.v # NodeError
       /\ \/ ret.val.response = Fallback
          \/ ret.val.response = ExtractReply(state.messages)

\* C13: from an id with no record, after k process_query calls that each
\* return success TRUE the persisted record holds exactly 2k messages,
\* alternating user and assistant, and its metadata.user_intent is the
\* user_intent in memory.  Stated turn by turn: a successful call that
\* follows k - 1 such calls (the record holding 2(k - 1) messages, or no
\* record when k = 1) leaves 2k.
C13_MessageCount ==
    [][(/\ op'.name = "process_query"
        /\ ret'.val.success
        /\ LET before == Stored(files, SafeId(conversation_id))
           IN  IF turns = 0 THEN ~Exists(files[SafeId(conversation_id)])
               ELSE ~IsNone(before) /\ Len(before.messages) = 2 * turns)
       => LET record == Stored(files', SafeId(conversation_id))
          IN  /\ ~IsNone(record)
              /\ Len(record.messages) = 2 * turns'
              /\ \A i \in DOMAIN record.messages :
                    record.messages[i].role =
                       IF i % 2 = 1 THEN PyStr("user") ELSE PyStr("assistant")
              /\ record.metadata.user_intent = PyStr(state'.user_intent)
      ]_vars

\* C14: reset() leaves no state in memory, makes a newly minted identifier
\* the active one and does nothing to the store, so every record, the one of
\* the previous identifier too, is as it was; the process_query after it
\* starts from an empty state with intent unknown: its first message is the
\* turn's user message and the node sees the intent unknown.
C14_Reset ==
    [][/\ op'.name = "reset" =>
             /\ IsNone(state')
             /\ conversation_id' # conversation_id
             /\ conversation_id' \in MintedIds
             /\ files' = files
       /\ (op.name = "reset" /\ op'.name = "process_query") =>
             /\ state'.messages[1].type = "human"
             /\ state'.messages[1].content = PyStr(op'.user_message)
             /\ \A i \in DOMAIN state'.messages : i > 1 => state'.messages[i].type # "human"
             /\ op'.prompt_intent = "unknown"
             /\ state'.turn_count = 0
      ]_vars

C14_Witness ==
    /\ op.name = "process_query"
    /\ conversation_id \in MintedIds
    /\ Len(state.messages) = 2
    /\ ~IsNone(Stored(files, SafeId(IdS1)))
    /\ Len(Stored(files, SafeId(IdS1)).messages) = 2

(***************************************************************************)
(* Loading conversations that any client of the store has written.         *)
(***************************************************************************)
MsgSystem == [role |-> PyStr("system"), content |-> PyStr("note")]
LoadMessageLists == MessageLists \cup {<<MsgSystem, MsgUser>>}
LoadIds == {IdAB, IdS1}

LoadNext ==
    \/ /\ \/ \E id \in LoadIds, m \in LoadMessageLists, md \in Metadatas, t \in Now,
               w \in StoreWriteOutcomes : SaveConversation(id, m, md, t, w)
          \/ \E id \in LoadIds, md \in Partials, t \in Now, w \in StoreWriteOutcomes :
               UpdateMetadata(id, md, t, w)
          \/ \E path \in Paths : Chmod(path)
       /\ UNCHANGED <<flowVars, writers>>
    \/ (\E id \in LoadIds : WorkflowLoadConversation(id)) /\ UNCHANGED writers

LoadSpec == StoreInit /\ [][LoadNext]_vars

RecordOf(id) == Stored(files, SafeId(id))
IsChatRole(m) == m.role \in {PyStr("user"), PyStr("assistant")}

C16_TurnCount ==
    [][op'.name = "process_query" =>
          /\ (~IsNone(state) /\ ~IsNone(state')) => state'.turn_count >= state.turn_count
          /\ (ret'.val.success /\ get_current_state(state).turn_count = turns) =>
                /\ state'.turn_count = turns'
                /\ Stored(files', SafeId(conversation_id)).metadata.turn_count =
                      PyInt(turns')
      ]_vars

\* C17: the state's error list holds only the errors of the current turn:
\* after a turn whose orchestrator node completed without exception it is
\* empty, whatever happened in earlier turns of the conversation.
C17_ErrorsReset ==
    (op.name = "process_query" /\ op.outcome = "completed") => state.error = <<>>

\* C18: save_conversation writes the whole record or nothing: after a save
\* of id over an existing record, interrupted or not, load_conversation(id)
\* returns the complete old record or the complete new one, never a partial
\* record and never None.
C18_AtomicSave ==
    [][(op'.name = "save_conversation" /\ ~IsNone(RecordOf(op'.id))) =>
          LET old == RecordOf(op'.id)
              loaded == load_conversation(files', op'.id)
          IN  /\ ~loaded.raised
              /\ ~IsNone(loaded.val)
              /\ \/ loaded.val = old
                 \/ /\ loaded.val.messages = op'.messages
                    /\ loaded.val.metadata = OrEmpty(op'.metadata)
                    /\ loaded.val.created_at = old.created_at
                    /\ loaded.val.updated_at = PyTime(clock')
      ]_vars

\* C19: a turn that fails (the node degrades or workflow.invoke raises)
\* leaves the message log and user_intent, in memory and in the record, as
\* they were after the last successful turn: the failed turn's user message
\* is in neither.
C19_FailedTurnLeavesNoTrace ==
    [][(op'.name = "process_query" /\ op'.outcome \in {"node_failed", "workflow_failed"}) =>
          LET before == get_current_state(state)
              after == get_current_state(state')
              old == RecordOf(conversation_id)
              new == Stored(files', SafeId(conversation_id))
          IN  /\ after.messages = before.messages
              /\ after.user_intent = before.user_intent
              /\ IsNone(old) => (IsNone(new) \/ new.messages = <<>>)
              /\ ~IsNone(old) =>
                    /\ ~IsNone(new)
                    /\ new.messages = old.messages
                    /\ new.metadata.user_intent = old.metadata.user_intent
      ]_vars

(***************************************************************************)
(* Two processes using one store: add_message and update_metadata as the   *)
(* reads and the write they are made of.                                   *)
(***************************************************************************)
\* The calls each writer makes.
MaxWrites == 1

WriterId == IdS1
WriterContents == [w1 |-> <<"a1", "a2", "a3">>, w2 |-> <<"b1", "b2", "b3">>]

\* datetime.now() read by concurrent processes: no earlier than any read before.
WriterNow == {t \in {clock, clock + 1} : 1 <= t /\ t <= MaxClock}

\* An add_message that puts the new message in front.
add_message_read_InFront(fs, id, role, content, t1) ==
    <<[role |-> PyStr(role), content |-> PyStr(content), timestamp |-> PyTime(t1)]>>
       \o get_messages(fs, id).val

\* add_message, lines 129-139: the messages read, the new one appended.
add_message_read(fs, id, role, content, t1) ==
    Append(get_messages(fs, id).val,
           [role |-> PyStr(role), content |-> PyStr(content), timestamp |-> PyTime(t1)])

\* add_message, lines 141-142: the conversation's metadata, read again.
add_message_load(fs, id) ==
    LET existing_data == load_conversation(fs, id).val
    IN  IF IsNone(existing_data) THEN EmptyDict ELSE existing_data.metadata

\* update_metadata, lines 158-167, on the record read at line 157.
update_metadata_save(fs, id, existing, metadata, t) ==
    IF ~IsNone(existing)
    THEN save_conversation(fs, id, existing.messages, metadata @@ existing.metadata, t, "ok")
    ELSE save_conversation(fs, id, <<>>, metadata, t, "ok")

\* A write by w: every other writer that has read has read a stale record.
AfterWriteBy(w, done) ==
    [v \in Writers |->
        IF v = w
        THEN [writers[w] EXCEPT !.pc = "idle", !.local = None, !.sent = @ \o done]
        ELSE [writers[v] EXCEPT !.clean = (writers[v].pc = "idle")]]

AddMessageRead(w, t) ==
    /\ writers[w].pc = "idle"
    /\ writers[w].calls < MaxWrites
    /\ LET content == WriterContents[w][writers[w].calls + 1]
       IN  writers' = [writers EXCEPT ![w] =
              [@ EXCEPT !.pc = "add_read", !.calls = @ + 1, !.clean = TRUE,
                        !.local = [content |-> content,
                                   messages |-> add_message_read(files, WriterId, "user",
                                                                 content, t)]]]
    /\ clock' = t
    /\ op' = [name |-> "writer.read", writer |-> w]
    /\ ret' = Ok(None)
    /\ UNCHANGED <<files, conversation_id>>

AddMessageLoad(w) ==
    /\ writers[w].pc = "add_read"
    /\ writers' = [writers EXCEPT ![w] =
          [@ EXCEPT !.pc = "add_loaded",
                    !.local = [content |-> @.content, messages |-> @.messages,
                               conv_metadata |-> add_message_load(files, WriterId)]]]
    /\ op' = [name |-> "writer.load", writer |-> w]
    /\ ret' = Ok(None)
    /\ UNCHANGED <<files, clock, conversation_id>>

AddMessageSave(w, t) ==
    /\ writers[w].pc = "add_loaded"
    /\ LET local == writers[w].local
           r == save_conversation(files, WriterId, local.messages, local.conv_metadata, t, "ok")
       IN  /\ files' = r.files
           /\ ret' = r.ret
           /\ op' = [name |-> "writer.add_message", writer |-> w,
                     content |-> local.content, clean |-> writers[w].clean]
           /\ writers' = AfterWriteBy(w, <<local.content>>)
    /\ clock' = t
    /\ UNCHANGED conversation_id

UpdateMetadataLoad(w) ==
    /\ writers[w].pc = "idle"
    /\ writers[w].calls < MaxWrites
    /\ writers' = [writers EXCEPT ![w] =
          [@ EXCEPT !.pc = "upd_loaded", !.calls = @ + 1, !.clean = TRUE,
                    !.local = [existing |-> load_conversation(files, WriterId).val]]]
    /\ op' = [name |-> "writer.load", writer |-> w]
    /\ ret' = Ok(None)
    /\ UNCHANGED <<files, clock, conversation_id>>

UpdateMetadataSave(w, metadata, t) ==
    /\ writers[w].pc = "upd_loaded"
    /\ LET r == update_metadata_save(files, WriterId, writers[w].local.existing, metadata, t)
       IN  /\ files' = r.files
           /\ ret' = r.ret
    /\ op' = [name |-> "writer.update_metadata", writer |-> w, clean |-> writers[w].clean]
    /\ writers' = AfterWriteBy(w, <<>>)
    /\ clock' = t
    /\ UNCHANGED conversation_id

WriterNext ==
    \/ \E w \in Writers, t \in WriterNow : AddMessageRead(w, t)
    \/ \E w \in Writers : AddMessageLoad(w)
    \/ \E w \in Writers, t \in WriterNow : AddMessageSave(w, t)
    \/ \E w \in Writers : UpdateMetadataLoad(w)
    \/ \E w \in Writers, t \in WriterNow : UpdateMetadataSave(w, MetaTurn2, t)

WriterSpec == StoreInit /\ [][WriterNext /\ UNCHANGED flowVars]_vars

LogOf(record) == IF IsNone(record) THEN <<>> ELSE record.messages
Contents(messages) == {messages[i].content : i \in DOMAIN messages}

\* C20: an add_message whose read and write no other writer's write comes
\* between (every call of a single writer is one) leaves its message
\* appended after all the messages there were, in call order, and the
\* conversation's metadata as it was.  That two writers interleaving lose an
\* appended message is the state C20_Witness, which is reachable.
C20_AddMessage ==
    [][(op'.name = "writer.add_message" /\ op'.clean) =>
          LET old == RecordOf(WriterId)
              new == Stored(files', SafeId(WriterId))
          IN  /\ ~ret'.raised
              /\ ~IsNone(new)
              /\ Len(new.messages) = Len(LogOf(old)) + 1
              /\ SubSeq(new.messages, 1, Len(LogOf(old))) = LogOf(old)
              /\ new.messages[Len(new.messages)].content = PyStr(op'.content)
              /\ new.metadata = IF IsNone(old) THEN EmptyDict ELSE old.metadata
      ]_vars

\* Both writers are done, every call has returned, and the record lacks a
\* message that an add_message appended.
C20_Witness ==
    /\ \A w \in Writers : writers[w].pc = "idle"
    /\ \E w \in Writers : \E i \in DOMAIN writers[w].sent :
          PyStr(writers[w].sent[i]) \notin Contents(LogOf(RecordOf(WriterId)))
    /\ \A w \in Writers : Len(writers[w].sent) = 1

(***************************************************************************)
(* OrchestratorNode.process on its own: one dispatch over a given state.   *)
(***************************************************************************)
\* agent_tool_fn(message, context): what the handler returned under its
\* result key; the handler's error list is not read.
agent_tool_fn(variant, message, env) ==
    LET st == [get_initial_state EXCEPT !.messages = <<>>]
        result == handler_process_query(variant, message, st, env).val
    IN  result[ResultKey(variant)]

\* The contents the tool-output message can get from a tool's return value:
\* a string as it is, None as the text the tool wrapper renders it to.
ToolOutputs(value) == IF IsNone(value) THEN {PyStr("null"), PyStr("None")} ELSE {value}

\* The loop's traces when it calls a handler as a tool and the handler fails
\* with message m.
TracesToolFailed(variant, m) ==
    {<<AIMessage(PyStr("calling"), TRUE), ToolMessage(out), AIMessage(PyStr("sorry"), FALSE)>> :
        out \in ToolOutputs(agent_tool_fn(variant, "q2",
                     [fail |-> "call", message |-> m, content |-> PyStr("")]))}

\* The message logs a dispatch is given.
NodeLogs ==
    {<<>>,
     <<HumanMessage(PyStr("q1"))>>,
     <<HumanMessage(PyStr("q1")), AIMessage(PyStr("r1"), FALSE)>>,
     <<HumanMessage(PyStr("q1")), AIMessage(PyStr("calling"), TRUE), ToolMessage(PyStr("t1"))>>,
     <<HumanMessage(PyStr("q1")), AIMessage(PyStr("r1"), FALSE), HumanMessage(PyStr(""))>>,
     <<HumanMessage(PyStr("q1")), AIMessage(PyStr("r1"), FALSE), HumanMessage(PyStr("q2"))>>,
     <<HumanMessage(PyStr("q1"))>> \o TraceTool(1) \o <<HumanMessage(PyStr("q2"))>>}

NodeStates ==
    {[get_initial_state EXCEPT !.messages = add_messages(<<>>, log), !.user_intent = intent] :
        log \in NodeLogs, intent \in {"unknown", "explain"}}

\* What a dispatch meets: the classifier's completion, a raise in tool
\* building, prompt building or the loop, and the loop's trace.
NodeEnvs ==
    {[outcome |-> c.outcome, reply |-> c.reply, fail |-> loop.fail, trace |-> loop.trace,
      tool_error |-> ""] :
        c \in Classifications,
        loop \in Loops(2) \cup
                 {[fail |-> TRUE, trace |-> TraceTool(2)],
                  [fail |-> FALSE,
                   trace |-> <<AIMessage(PyStr("r2"), FALSE), AIMessage(PyStr("r3"), FALSE)>>],
                  [fail |-> FALSE,
                   trace |-> <<AIMessage(PyStr("calling"), TRUE), ToolMessage(PyStr("")),
                               AIMessage(PyStr("r2"), FALSE)>>]}}
    \cup
    {[outcome |-> c.outcome, reply |-> c.reply, fail |-> FALSE,
      trace |-> trace, tool_error |-> "boom"] :
        c \in Classifications,
        trace \in TracesToolFailed("explainer", "boom") \cup TracesToolFailed("learner", "boom")}

NodeProcess(st, env) ==
    LET node == process(st, env)
    IN  /\ ret' = Ok(node.update)
        /\ op' = [name |-> "process", state |-> st, env |-> env,
                  detect_calls |-> node.detect_calls, prompt_intent |-> node.prompt_intent]
        /\ state' = ApplyUpdate(st, node.update)
        /\ UNCHANGED <<files, clock, conversation_id, checkpoint, turns, saved, writers>>

NodeNext == \E st \in NodeStates, env \in NodeEnvs : NodeProcess(st, env)

NodeSpec == StoreInit /\ [][NodeNext]_vars

\* C21: when the Explain or Learn handler, invoked as a tool in a turn,
\* returns success FALSE with error message m, the dispatch does not raise
\* and the state's error list after it contains m.
C21_HandlerErrorSurfaced ==
    (op.name = "process" /\ op.env.tool_error # "") =>
       /\ ~ret.raised
       /\ \E i \in DOMAIN state.error : state.error[i] = op.env.tool_error

\* C22: the reply a dispatch extracts from the loop's messages is the content
\* of the last tool-output message with non-empty content if there is one;
\* otherwise the text of the last assistant message that has content and no
\* tool calls; otherwise the empty string.
C22_ReplyExtraction ==
    (op.name = "process" /\ "messages" \in DOMAIN ret.val) =>
       LET msgs == ret.val.messages
           tools == {i \in DOMAIN msgs : msgs[i].type = "tool" /\ Truthy(msgs[i].content)}
           texts == {i \in DOMAIN msgs :
                        msgs[i].type = "ai" /\ Truthy(msgs[i].content) /\ ~msgs[i].tool_calls}
           Last(S) == CHOOSE i \in S : \A j \in S : j <= i
       IN  ret.val.orchestrator_result =
              IF tools # {} THEN msgs[Last(tools)].content
              ELSE IF texts # {} THEN extract_text(msgs[Last(texts)].content)
              ELSE PyStr("")

\* C23: the user message a dispatch considers is the latest user message of
\* the log, wherever it stands; the classifier is invoked exactly once when
\* user_intent is "unknown" and that message exists and is non-empty, and is
\* not invoked otherwise, in which case the existing intent is kept.
C23_ClassifierInvocation ==
    op.name = "process" =>
       LET msgs == op.state.messages
           humans == {i \in DOMAIN msgs : msgs[i].type = "human"}
           latest == CHOOSE i \in humans : \A j \in humans : j <= i
           present == humans # {} /\ msgs[latest].content.v # ""
       IN  IF op.state.user_intent = "unknown" /\ present
           THEN op.detect_calls = 1
           ELSE op.detect_calls = 0 /\ state.user_intent = op.state.user_intent

C23_Witness ==
    /\ op.name = "process"
    /\ op.state.user_intent = "unknown"
    /\ op.state.messages # <<>>
    /\ op.state.messages[Len(op.state.messages)].type # "human"
    /\ op.detect_calls = 1
    /\ state.user_intent = "explain"

\* C24: the handler-selection prompt of a dispatch embeds the intent as that
\* dispatch resolved it (the classifier's answer when classification ran in
\* the dispatch), not the intent the state held before it.
C24_PromptIntent ==
    (op.name = "process" /\ "user_intent" \in DOMAIN ret.val) =>
       op.prompt_intent = ret.val.user_intent

\* C25: a dispatch never raises; when tool building, prompt building or the
\* loop raises with message m, it returns an update holding only
\* orchestrator_result = None and error = <<"Orchestrator node failed: m">>,
\* with no messages and no user_intent key, so the state's messages and
\* user_intent are as before the dispatch.
C25_NodeNeverRaises ==
    op.name = "process" =>
       /\ ~ret.raised
       /\ op.env.fail =>
             /\ ret.val = [orchestrator_result |-> None, error |-> <<NodeError>>]
             /\ state.messages = op.state.messages
             /\ state.user_intent = op.state.user_intent
             /\ state.error = <<NodeError>>

C25_Witness ==
    /\ op.name = "process"
    /\ op.env.fail
    /\ op.detect_calls = 1
    /\ op.env.outcome = "text"
    /\ op.env.trace # <<>>
    /\ state.user_intent = "unknown"
    /\ Len(state.messages) = 1
    /\ DOMAIN ret.val = {"orchestrator_result", "error"}

\* C26: the message log is append-only and never reordered: for every
\* process_query call the messages in memory before the call are a prefix of
\* the messages in memory after it, the new user message stands directly
\* after that prefix, and the persisted message list before the turn is a
\* prefix of the persisted message list after it.
C26_AppendOnly ==
    [][op'.name = "process_query" =>
          LET Body(m) == [type |-> m.type, content |-> m.content, tool_calls |-> m.tool_calls]
              before == get_current_state(state).messages
              after == get_current_state(state').messages
              old == get_messages(files, conversation_id).val
              new == get_messages(files', conversation_id).val
          IN  /\ Len(before) < Len(after)
              /\ \A i \in DOMAIN before : Body(after[i]) = Body(before[i])
              /\ Body(after[Len(before) + 1]) = Body(HumanMessage(PyStr(op'.user_message)))
              /\ Len(old) <= Len(new)
              /\ \A i \in DOMAIN old : new[i] = old[i]
      ]_vars

\* C27: the response of a turn is the content of a tool-output or assistant
\* message generated after that turn's user message, never of a message an
\* earlier turn left in the log.
C27_ResponseFromThisTurn ==
    (op.name = "process_query" /\ op.outcome = "completed") =>
       LET msgs == state.messages
           humans == {i \in DOMAIN msgs : msgs[i].type = "human"}
           asked == CHOOSE i \in humans : \A j \in humans : j <= i
       IN  \E i \in DOMAIN msgs :
              /\ i > asked
              /\ msgs[i].type \in {"ai", "tool"}
              /\ extract_text(msgs[i].content) = ret.val.response

\* C28: after every process_query that returns success = TRUE (here: with the
\* reply its dispatch extracted), the last assistant message of the persisted
\* record has the response returned for that turn as its content.
C28_ResponsePersisted ==
    (op.name = "process_query" /\ ret.val.success /\ op.outcome = "completed") =>
       LET msgs == get_messages(files, conversation_id).val
           spoken == {i \in DOMAIN msgs : msgs[i].role = PyStr("assistant")}
           last == CHOOSE i \in spoken : \A j \in spoken : j <= i
       IN  /\ spoken # {}
           /\ msgs[last].content = ret.val.response

\* C29: the store is a mapping keyed by identifier: for any two distinct
\* identifiers a and b ("a/b" and "a_b" included), save_conversation,
\* add_message, update_metadata and delete_conversation on a never change
\* what load_conversation(b) returns, and a record loaded with an identifier
\* has that identifier as its conversation_id.
C29_KeyedByIdentifier ==
    [][op'.name \in WriteOps \cup {"delete_conversation"} =>
          /\ \A b \in Ids \ {op'.id} :
                load_conversation(files', b) = load_conversation(files, b)
          /\ \A b \in Ids :
                LET loaded == load_conversation(files', b).val
                IN  ~IsNone(loaded) => loaded.conversation_id = b
      ]_vars

====
